---- MODULE Spec2Model ----
(***************************************************************************)
(* Model of the Bun mail server: the HTTP API (authentication, /api/send,  *)
(* /api/send-batch), the mail transport in its three variants (direct to   *)
(* MX, relay MailService, monolith MailSender), the DNS verifier and the   *)
(* DKIM key initialisation.                                                *)
(*                                                                         *)
(* A JavaScript string is a sequence of one-character strings; the value   *)
(* undefined is the one-element sequence Undefined, which no string equals.*)
(***************************************************************************)
EXTENDS Integers, Sequences, FiniteSets, TLC

VARIABLES
    variant,        \* which transport is deployed: "direct", "relay", "monolith"
    apiKey,         \* config.apiKey
    pc,             \* position of the request being handled
    req,            \* the request: route, headers, body
    status,         \* set.status of the response (0: never set)
    sends,          \* the member sends of the request, by input index
    completed,      \* indices of the member sends, in the order they settled
    response,       \* the response body
    invoked,        \* the service method the route handler called, or "none"
    mxLookups,      \* resolveMx calls made for the request
    sendMailCalls   \* transporter.sendMail calls made for the request

apiVars == <<variant, apiKey, pc, req, status, sends, completed, response,
             invoked, mxLookups, sendMailCalls>>

VARIABLES
    dnsImpl,        \* checkDnsRecords of "modular" (utils) or "monolith"
    mailDomain,     \* config.domain
    dnsPc,          \* "idle", the record kind awaited, or "done"
    dnsInFlight,    \* the lookups issued and not yet settled
    dnsAnswers,     \* what each settled lookup answered
    dnsResults      \* the results object of checkDnsRecords

dnsVars == <<dnsImpl, mailDomain, dnsPc, dnsInFlight, dnsAnswers, dnsResults>>

VARIABLES
    keyImpl,        \* startup of "modular" (index.ts) or "monolith"
    configuredKey,  \* config.dkimPrivateKey
    keyPc,          \* "boot", "parsed", "resolved", "ready"
    dkimPrivateKey, \* the startup's dkimPrivateKey
    guide,          \* the setup guide printed by this startup, or NoGuide
    transportKey,   \* dkim.privateKey of the transport constructed
    generatedKeys   \* the private keys generated so far, over all startups

keyVars == <<keyImpl, configuredKey, keyPc, dkimPrivateKey, guide, transportKey,
             generatedKeys>>

\* ------------------------------------------------------------ bounds
MaxBatch == 3
MaxMx == 2
MaxBoots == 2
MaxKeyBody == 3

\* ------------------------------------------------------------ JS values
Undefined == <<"undefined">>

Truthy(s) == s /= Undefined /\ s /= <<>>

NoBody == [kind |-> "none"]

\* ------------------------------------------------------------ JS strings
OccursAt(s, pat, i) ==
    /\ i >= 1
    /\ i + Len(pat) - 1 <= Len(s)
    /\ SubSeq(s, i, i + Len(pat) - 1) = pat

\* String.prototype.indexOf, 1-based; 0 when pat does not occur
IndexOf(s, pat) ==
    IF \E i \in 1..(Len(s) + 1) : OccursAt(s, pat, i)
    THEN CHOOSE i \in 1..(Len(s) + 1) :
            /\ OccursAt(s, pat, i)
            /\ \A j \in 1..(i - 1) : ~OccursAt(s, pat, j)
    ELSE 0

\* String.prototype.replace with a string pattern: the first occurrence only
ReplaceFirst(s, pat, rep) ==
    LET i == IndexOf(s, pat)
    IN  IF i = 0 THEN s
        ELSE SubSeq(s, 1, i - 1) \o rep \o SubSeq(s, i + Len(pat), Len(s))

StartsWith(s, pat) == OccursAt(s, pat, 1)

Includes(s, pat) == IndexOf(s, pat) /= 0

RECURSIVE Split(_, _)
\* String.prototype.split with a one-character separator
Split(s, sep) ==
    LET i == IndexOf(s, <<sep>>)
    IN  IF i = 0 THEN <<s>>
        ELSE <<SubSeq(s, 1, i - 1)>> \o Split(SubSeq(s, i + 1, Len(s)), sep)

RECURSIVE Join(_, _)
\* Array.prototype.join
Join(list, sep) ==
    IF list = <<>> THEN <<>>
    ELSE IF Len(list) = 1 THEN list[1]
    ELSE list[1] \o sep \o Join(Tail(list), sep)

\* ------------------------------------------------------------ strings used
StrBearer == <<"B", "e", "a", "r", "e", "r", " ">>
StrOk == <<"o", "k">>
StrNo == <<"n", "o">>
CommaSpace == <<",", " ">>

AddrUA == <<"u", "@", "a">>
AddrVB == <<"v", "@", "b">>
AddrNoAt == <<"u">>

\* ------------------------------------------------------------ authentication
\* the two headers read in the other order
ProvidedKeyBearerFirst(headers) ==
    IF headers.authorization /= Undefined
       /\ Truthy(ReplaceFirst(headers.authorization, StrBearer, <<>>))
    THEN ReplaceFirst(headers.authorization, StrBearer, <<>>)
    ELSE headers.xApiKey

\* headers["x-api-key"] || headers["authorization"]?.replace("Bearer ", "")
ProvidedKey(headers) ==
    IF Truthy(headers.xApiKey) THEN headers.xApiKey
    ELSE IF headers.authorization = Undefined THEN Undefined
    ELSE ReplaceFirst(headers.authorization, StrBearer, <<>>)

\* the derive hook passes the request on: providedKey === apiKey
Authenticated(headers, key) == ProvidedKey(headers) = key

\* ------------------------------------------------------------ recipients
\* options.to is a string or an array of strings: arr tells which, list holds
\* the array's elements (or the one string)
ToStr(s) == [arr |-> FALSE, list |-> <<s>>]
ToArr(l) == [arr |-> TRUE, list |-> l]

\* Array.isArray(options.to) ? options.to[0] : options.to
FirstRecipient(to) ==
    IF to.arr /\ to.list = <<>> THEN Undefined ELSE to.list[1]

\* Array.isArray(options.to) ? options.to.join(", ") : options.to
ToHeader(to) ==
    IF to.arr THEN Join(to.list, CommaSpace) ELSE to.list[1]

\* email.split("@")[1]
DomainOf(email) ==
    LET parts == Split(email, "@")
    IN  IF Len(parts) >= 2 THEN parts[2] ELSE Undefined

\* ------------------------------------------------------------ MX selection
MxError == [err |-> TRUE, records |-> <<>>]
MxOk(records) == [err |-> FALSE, records |-> records]
NoAnswer == [err |-> FALSE, records |-> <<[priority |-> 0, exchange |-> Undefined]>>]

RECURSIVE InsertByPriority(_, _)
\* r goes behind every record whose priority is not larger (a stable sort)
InsertByPriority(r, sorted) ==
    IF sorted = <<>> THEN <<r>>
    ELSE IF sorted[Len(sorted)].priority - r.priority <= 0 THEN Append(sorted, r)
    ELSE Append(InsertByPriority(r, SubSeq(sorted, 1, Len(sorted) - 1)),
                sorted[Len(sorted)])

RECURSIVE SortByPriority(_)
\* mxRecords.sort((a, b) => a.priority - b.priority)
SortByPriority(records) ==
    IF records = <<>> THEN <<>>
    ELSE InsertByPriority(records[Len(records)],
                          SortByPriority(SubSeq(records, 1, Len(records) - 1)))

\* getMxHost without the sort: the first record as the resolver returned it
GetMxHostUnsorted(domain, answer) ==
    IF answer.err \/ answer.records = <<>> THEN domain
    ELSE answer.records[1].exchange

\* getMxHost's return value once resolveMx has answered for domain: an error,
\* and the TypeError of mxRecords[0].exchange on an empty list, are caught
GetMxHost(domain, answer) ==
    IF answer.err \/ answer.records = <<>> THEN domain
    ELSE SortByPriority(answer.records)[1].exchange

\* ------------------------------------------------------------ one send
NoOutcome == [ok |-> FALSE, messageId |-> 0, accepted |-> <<>>, rejected |-> <<>>,
              message |-> "none"]

\* what transporter.sendMail can do with the message of member i: reject
\* (connection refused stands for every failure of the connection or the
\* remote server), or resolve with all recipients accepted or the first
\* only. A message with no recipient is rejected before any connection.
SmtpFail(msg) == [ok |-> FALSE, messageId |-> 0, accepted |-> <<>>,
                  rejected |-> <<>>, message |-> msg]

SmtpAccept(i, acc, rej) == [ok |-> TRUE, messageId |-> i, accepted |-> acc,
                            rejected |-> rej, message |-> "none"]

SmtpOutcomes(i, to) ==
    IF ToHeader(to) = <<>> THEN {SmtpFail("EENVELOPE")}
    ELSE {SmtpFail("ECONNREFUSED"), SmtpAccept(i, to.list, <<>>)}
         \cup (IF Len(to.list) > 1
               THEN {SmtpAccept(i, <<to.list[1]>>, Tail(to.list))}
               ELSE {})

ErrorMessages == {"ECONNREFUSED", "EENVELOPE", "TypeError"}

\* return { success: true, messageId, accepted, rejected }
SendSuccess(out) ==
    [settled |-> "fulfilled",
     value |-> [success |-> TRUE, messageId |-> out.messageId,
                accepted |-> out.accepted, rejected |-> out.rejected]]

\* MailService.send: catch (error) { return { success: false, error: error.message } }
SendCaught(msg) ==
    [settled |-> "fulfilled", value |-> [success |-> FALSE, error |-> msg]]

\* MailSender.send has no try: the promise rejects with sendMail's error
SendRejected(msg) ==
    [settled |-> "rejected", value |-> [message |-> msg]]

\* send without its try/catch: every failure leaves as a rejection
SendFailureUncaught(v, msg) == SendRejected(msg)

\* how send ends when something in it throws
SendFailure(v, msg) ==
    IF v = "monolith" THEN SendRejected(msg) ELSE SendCaught(msg)

Member(mpc, query, answer, host, smtp, end) ==
    [pc |-> mpc, query |-> query, answer |-> answer, host |-> host, smtp |-> smtp,
     settled |-> end.settled, value |-> end.value]

Pending == [settled |-> "pending", value |-> NoBody]

StrLocalhost == <<"l", "o", "c", "a", "l", "h", "o", "s", "t">>

\* send up to its first await. Direct mode: options.to[0] of an empty array
\* is undefined and email.split throws a TypeError outside getMxHost's try;
\* otherwise resolveMx is called for the first recipient's domain. The relay
\* and the monolith call sendMail on the transporter for localhost at once.
StartSend(v, email) ==
    IF v = "direct"
    THEN IF FirstRecipient(email.to) = Undefined
         THEN Member("done", Undefined, NoAnswer, Undefined, NoOutcome,
                     SendFailure(v, "TypeError"))
         ELSE Member("mx", DomainOf(FirstRecipient(email.to)), NoAnswer, Undefined,
                     NoOutcome, Pending)
    ELSE Member("smtp", Undefined, NoAnswer, StrLocalhost, NoOutcome, Pending)

\* getMxHost without its catch: a failed or empty MX answer ends the send in
\* send's own catch, before any transporter exists
AfterMxNoFallback(m, answer) ==
    IF answer.err \/ answer.records = <<>>
    THEN [m EXCEPT !.pc = "done", !.answer = answer, !.settled = "fulfilled",
                   !.value = [success |-> FALSE, error |-> "ENOTFOUND"]]
    ELSE [m EXCEPT !.pc = "smtp", !.answer = answer,
                   !.host = SortByPriority(answer.records)[1].exchange]

\* send after resolveMx settled: createTransporter(mxHost), then sendMail
AfterMx(m, answer) ==
    [m EXCEPT !.pc = "smtp", !.answer = answer,
              !.host = GetMxHost(m.query, answer)]

\* send after sendMail settled
AfterSmtp(v, m, out) ==
    LET end == IF out.ok THEN SendSuccess(out) ELSE SendFailure(v, out.message)
    IN  [m EXCEPT !.pc = "done", !.smtp = out, !.settled = end.settled,
                  !.value = end.value]

\* ------------------------------------------------------------ batch results
\* { to: emails[index].to, ...(fulfilled ? result.value
\*                                        : { success: false, error: reason.message }) }
BatchEntry(email, m) ==
    (IF m.settled = "fulfilled" THEN m.value
     ELSE [success |-> FALSE, error |-> m.value.message])
    @@ [to |-> email.to]

\* results collected as the sends settle, not by input index
ProcessedByCompletion(emails, members) ==
    [k \in 1..Len(emails) |->
        BatchEntry(emails[completed[k]], members[completed[k]])]

ProcessedResults(emails, members) ==
    [i \in 1..Len(emails) |-> BatchEntry(emails[i], members[i])]

\* sendBatch counting promise statuses although send never rejects
ServiceBatchByStatus(emails, members) ==
    [total |-> Len(emails),
     success |-> Cardinality({i \in 1..Len(emails) : members[i].settled = "fulfilled"}),
     failed |-> Cardinality({i \in 1..Len(emails) : members[i].settled = "rejected"}),
     results |-> ProcessedResults(emails, members)]

\* MailService.sendBatch: counts filter the success flag of the entries
ServiceBatch(emails, members) ==
    LET results == ProcessedResults(emails, members)
    IN  [total |-> Len(emails),
         success |-> Cardinality({i \in 1..Len(emails) : results[i].success}),
         failed |-> Cardinality({i \in 1..Len(emails) : ~results[i].success}),
         results |-> results]

\* the monolith's /send-batch handler: counts filter the promise status
MonolithBatch(emails, members) ==
    [total |-> Len(emails),
     success |-> Cardinality({i \in 1..Len(emails) : members[i].settled = "fulfilled"}),
     failed |-> Cardinality({i \in 1..Len(emails) : members[i].settled = "rejected"}),
     results |-> ProcessedResults(emails, members)]

BatchResponse(v, emails, members) ==
    IF v = "monolith" THEN MonolithBatch(emails, members)
    ELSE ServiceBatch(emails, members)

ErrorBody(msg) == [kind |-> "error", message |-> msg]

\* the /send handler: the routes return MailService.send's value; the monolith
\* catches MailSender.send's rejection. A rejection nobody catches is the
\* framework's error response.
SendResponse(v, m) ==
    IF m.settled = "fulfilled" THEN m.value
    ELSE IF v = "monolith" THEN [success |-> FALSE, error |-> m.value.message]
    ELSE ErrorBody(m.value.message)

SendStatus(v, m, st) ==
    IF m.settled = "rejected" /\ v /= "monolith" THEN 500 ELSE st

\* ------------------------------------------------------------ requests
Variants == {"direct", "relay", "monolith"}

XApiKeyValues == {Undefined, <<>>, StrOk, StrNo}

AuthorizationValues ==
    {Undefined, <<>>, StrBearer \o StrOk, StrBearer \o StrNo, StrOk, StrBearer}

AllHeaders == [xApiKey : XApiKeyValues, authorization : AuthorizationValues]

KeyHeaders == {[xApiKey |-> StrOk, authorization |-> Undefined]}

Emails(tos) == {[to |-> t] : t \in tos}

RECURSIVE SeqsUpTo(_, _)
SeqsUpTo(S, n) ==
    IF n = 0 THEN {<<>>}
    ELSE LET shorter == SeqsUpTo(S, n - 1)
         IN  shorter \cup {Append(q, x) : q \in {r \in shorter : Len(r) = n - 1}, x \in S}

SendRequests(headers, tos) ==
    [route : {"send"}, headers : headers, emails : {<<e>> : e \in Emails(tos)}]

BatchRequests(headers, tos, n) ==
    [route : {"send-batch"}, headers : headers, emails : SeqsUpTo(Emails(tos), n)]

NoRequest == [route |-> "none", headers |-> [xApiKey |-> Undefined,
              authorization |-> Undefined], emails |-> <<>>]

CountPc(members, p) == Cardinality({i \in DOMAIN members : members[i].pc = p})

\* the members whose send ended before its first await, in dispatch order
SettledAtStart(members) ==
    SelectSeq([i \in 1..Len(members) |-> i], LAMBDA i : members[i].pc = "done")

\* ------------------------------------------------------------ actions
\* A request arrives: the derive hook runs, and on a matching key the route
\* handler runs up to its first await, which starts every member send.
Receive(r) ==
    /\ pc = "idle"
    /\ req' = r
    /\ IF ~Authenticated(r.headers, apiKey)
       THEN /\ status' = 401
            /\ completed' = <<>>
            /\ response' = ErrorBody("Invalid API Key")
            /\ pc' = "responded"
            /\ invoked' = "none"
            /\ sends' = <<>>
            /\ mxLookups' = 0
            /\ sendMailCalls' = 0
       ELSE LET members == [i \in 1..Len(r.emails) |-> StartSend(variant, r.emails[i])]
            IN  /\ status' = 200
                /\ response' = NoBody
                /\ pc' = "sending"
                /\ invoked' = r.route
                /\ sends' = members
                /\ completed' = SettledAtStart(members)
                /\ mxLookups' = CountPc(members, "mx")
                /\ sendMailCalls' = CountPc(members, "smtp")
    /\ UNCHANGED <<variant, apiKey>>
    /\ UNCHANGED <<dnsVars, keyVars>>

\* resolveMx settles for member i; getMxHost returns and sendMail is called
MxAnswer(i, answer) ==
    /\ pc = "sending"
    /\ i \in DOMAIN sends
    /\ sends[i].pc = "mx"
    /\ sends' = [sends EXCEPT ![i] = AfterMx(sends[i], answer)]
    /\ sendMailCalls' = sendMailCalls + 1
    /\ UNCHANGED <<variant, apiKey, pc, req, status, completed, response, invoked,
                   mxLookups>>
    /\ UNCHANGED <<dnsVars, keyVars>>

\* sendMail settles for member i, and with it the member's send
SmtpDone(i, out) ==
    /\ pc = "sending"
    /\ i \in DOMAIN sends
    /\ sends[i].pc = "smtp"
    /\ sends' = [sends EXCEPT ![i] = AfterSmtp(variant, sends[i], out)]
    /\ completed' = Append(completed, i)
    /\ UNCHANGED <<variant, apiKey, pc, req, status, response, invoked, mxLookups,
                   sendMailCalls>>
    /\ UNCHANGED <<dnsVars, keyVars>>

\* every member has settled: the handler returns the response
Respond ==
    /\ pc = "sending"
    /\ \A i \in DOMAIN sends : sends[i].pc = "done"
    /\ pc' = "responded"
    /\ IF req.route = "send"
       THEN /\ response' = SendResponse(variant, sends[1])
            /\ status' = SendStatus(variant, sends[1], status)
       ELSE /\ response' = BatchResponse(variant, req.emails, sends)
            /\ status' = status
    /\ UNCHANGED <<variant, apiKey, req, sends, completed, invoked, mxLookups,
                   sendMailCalls>>
    /\ UNCHANGED <<dnsVars, keyVars>>

\* the response is sent; the server waits for the next request
Finish ==
    /\ pc = "responded"
    /\ pc' = "idle"
    /\ req' = NoRequest
    /\ status' = 200
    /\ sends' = <<>>
    /\ completed' = <<>>
    /\ response' = NoBody
    /\ invoked' = "none"
    /\ mxLookups' = 0
    /\ sendMailCalls' = 0
    /\ UNCHANGED <<variant, apiKey>>
    /\ UNCHANGED <<dnsVars, keyVars>>

InitApi(variants, keys) ==
    /\ variant \in variants
    /\ apiKey \in keys
    /\ pc = "idle"
    /\ req = NoRequest
    /\ status = 200
    /\ sends = <<>>
    /\ completed = <<>>
    /\ response = NoBody
    /\ invoked = "none"
    /\ mxLookups = 0
    /\ sendMailCalls = 0

\* ------------------------------------------------------------ DNS verifier
StrSpf1 == <<"v", "=", "s", "p", "f", "1">>
StrDkim1 == <<"v", "=", "D", "K", "I", "M", "1">>
StrDmarc1 == <<"v", "=", "D", "M", "A", "R", "C", "1">>
Ellipsis == <<".", ".", ".">>
DkimValueLen == 50

TxtError == [err |-> TRUE, records |-> <<>>]
TxtOk(records) == [err |-> FALSE, records |-> records]

RECURSIVE Flat(_)
\* Array.prototype.flat on the string[][] of resolveTxt
Flat(records) ==
    IF records = <<>> THEN <<>> ELSE records[1] \o Flat(Tail(records))

\* Array.prototype.find with r => r.startsWith(prefix); undefined when none
FindStartingWith(list, prefix) ==
    IF \E i \in 1..Len(list) : StartsWith(list[i], prefix)
    THEN list[CHOOSE i \in 1..Len(list) :
                /\ StartsWith(list[i], prefix)
                /\ \A j \in 1..(i - 1) : ~StartsWith(list[j], prefix)]
    ELSE Undefined

\* String.prototype.substring(0, n)
Substring0(str, n) == SubSeq(str, 1, IF n < Len(str) THEN n ELSE Len(str))

DigitChars == <<"0", "1", "2", "3", "4", "5", "6", "7", "8", "9">>

RECURSIVE NumToStr(_)
\* a number in a template literal
NumToStr(n) ==
    IF n < 10 THEN <<DigitChars[n + 1]>>
    ELSE NumToStr(n \div 10) \o <<DigitChars[(n % 10) + 1]>>

SpfHint == <<"Add TXT: v=spf1 ip4:YOUR_SERVER_IP ~all">>

DkimHint(impl) ==
    IF impl = "monolith" THEN <<"Run server to generate DKIM key">>
    ELSE <<"DKIM record not configured">>

\* the DMARC hint as a fixed text, like the SPF hint
DmarcHintFixed(dom) == <<"Add TXT _dmarc: v=DMARC1; p=quarantine">>

\* `Add TXT _dmarc.${domain}: v=DMARC1; p=quarantine`
DmarcHint(dom) == <<"Add TXT _dmarc.">> \o dom \o <<": v=DMARC1; p=quarantine">>

MxHint == <<"Not required for sending only">>

Ok(value) == [status |-> "OK", value |-> value]
Missing(hint) == [status |-> "MISSING", hint |-> hint]
Optional(hint) == [status |-> "OPTIONAL", hint |-> hint]

CheckSpf(answer) ==
    IF answer.err THEN Missing(SpfHint)
    ELSE LET spf == FindStartingWith(Flat(answer.records), StrSpf1)
         IN  IF Truthy(spf) THEN Ok(spf) ELSE Missing(SpfHint)

CheckDkim(impl, answer) ==
    IF answer.err THEN Missing(DkimHint(impl))
    ELSE LET dkim == Join(Flat(answer.records), <<>>)
         IN  IF Includes(dkim, StrDkim1)
             THEN Ok(Substring0(dkim, DkimValueLen) \o Ellipsis)
             ELSE Missing(DkimHint(impl))

CheckDmarc(dom, answer) ==
    IF answer.err THEN Missing(DmarcHint(dom))
    ELSE LET dmarc == FindStartingWith(Flat(answer.records), StrDmarc1)
         IN  IF Truthy(dmarc) THEN Ok(dmarc) ELSE Missing(DmarcHint(dom))

\* records.map(r => `${r.priority} ${r.exchange}`).join(", ")
MxValue(records) ==
    Join([k \in 1..Len(records) |->
            NumToStr(records[k].priority) \o <<" ">> \o records[k].exchange],
         CommaSpace)

\* checkMx of utils/dns-checker: an empty list is OPTIONAL like a failure
CheckMx(answer) ==
    IF answer.err THEN Optional(MxHint)
    ELSE IF Len(answer.records) > 0 THEN Ok(MxValue(answer.records))
    ELSE Optional(MxHint)

\* results after the MX check. The monolith assigns results.MX in the catch
\* and under mxRecords.length > 0 only: an empty list leaves results.MX unset.
WithMx(impl, results, answer) ==
    IF impl = "monolith" /\ ~answer.err /\ Len(answer.records) = 0 THEN results
    ELSE ("MX" :> CheckMx(answer)) @@ results

DnsKinds == {"SPF", "DKIM", "DMARC", "MX"}

\* the four lookups issued together, as under Promise.all
IssuedAtStartAll == DnsKinds

\* the lookup checkDnsRecords issues before its first await
IssuedAtStart == {"SPF"}

\* the lookup issued when the lookup of kind has settled
IssuedAfter(kind) ==
    IF kind = "SPF" THEN {"DKIM"}
    ELSE IF kind = "DKIM" THEN {"DMARC"}
    ELSE IF kind = "DMARC" THEN {"MX"}
    ELSE {}

NoResults == <<>>

\* GET /dns-check, or the check at startup: checkDnsRecords is called
DnsStart ==
    /\ dnsPc = "idle"
    /\ dnsPc' = "SPF"
    /\ dnsInFlight' = IssuedAtStart
    /\ dnsAnswers' = NoResults
    /\ dnsResults' = NoResults
    /\ UNCHANGED <<dnsImpl, mailDomain>>
    /\ UNCHANGED <<apiVars, keyVars>>

Settle(kind, answer, results) ==
    /\ dnsInFlight' = (dnsInFlight \ {kind}) \cup IssuedAfter(kind)
    /\ dnsAnswers' = (kind :> answer) @@ dnsAnswers
    /\ dnsResults' = results
    /\ UNCHANGED <<dnsImpl, mailDomain>>
    /\ UNCHANGED <<apiVars, keyVars>>

\* resolveTxt(domain) settles
SpfAnswer(answer) ==
    /\ dnsPc = "SPF"
    /\ "SPF" \in dnsInFlight
    /\ dnsPc' = "DKIM"
    /\ Settle("SPF", answer, ("SPF" :> CheckSpf(answer)) @@ dnsResults)

\* resolveTxt(`${selector}._domainkey.${domain}`) settles
DkimAnswer(answer) ==
    /\ dnsPc = "DKIM"
    /\ "DKIM" \in dnsInFlight
    /\ dnsPc' = "DMARC"
    /\ Settle("DKIM", answer, ("DKIM" :> CheckDkim(dnsImpl, answer)) @@ dnsResults)

\* resolveTxt(`_dmarc.${domain}`) settles
DmarcAnswer(answer) ==
    /\ dnsPc = "DMARC"
    /\ "DMARC" \in dnsInFlight
    /\ dnsPc' = "MX"
    /\ Settle("DMARC", answer, ("DMARC" :> CheckDmarc(mailDomain, answer)) @@ dnsResults)

\* resolveMx(domain) settles; checkDnsRecords returns results
MxCheckAnswer(answer) ==
    /\ dnsPc = "MX"
    /\ "MX" \in dnsInFlight
    /\ dnsPc' = "done"
    /\ Settle("MX", answer, WithMx(dnsImpl, dnsResults, answer))

\* the results have been sent or printed
DnsFinish ==
    /\ dnsPc = "done"
    /\ dnsPc' = "idle"
    /\ dnsInFlight' = {}
    /\ dnsAnswers' = NoResults
    /\ dnsResults' = NoResults
    /\ UNCHANGED <<dnsImpl, mailDomain>>
    /\ UNCHANGED <<apiVars, keyVars>>

DnsImpls == {"modular", "monolith"}
Domains == {<<"a">>, <<"b", ".", "c">>}

InitDns(impls, domains) ==
    /\ dnsImpl \in impls
    /\ mailDomain \in domains
    /\ dnsPc = "idle"
    /\ dnsInFlight = {}
    /\ dnsAnswers = NoResults
    /\ dnsResults = NoResults

\* ------------------------------------------------------------ DKIM key
\* the characters of codes 32 to 126, in code order (the double quote, the
\* backslash and the backtick by name)
Printable ==
    <<" ", "!", "QUOTE", "#", "$", "%", "&", "'", "(", ")", "*", "+", ",", "-",
      ".", "/", "0", "1", "2", "3", "4", "5", "6", "7", "8", "9", ":", ";",
      "<", "=", ">", "?", "@", "A", "B", "C", "D", "E", "F", "G", "H", "I",
      "J", "K", "L", "M", "N", "O", "P", "Q", "R", "S", "T", "U", "V", "W",
      "X", "Y", "Z", "[", "BACKSLASH", "]", "^", "_", "BACKTICK", "a", "b", "c", "d",
      "e", "f", "g", "h", "i", "j", "k", "l", "m", "n", "o", "p", "q", "r",
      "s", "t", "u", "v", "w", "x", "y", "z", "{", "|", "}", "~">>

Base64Chars ==
    <<"A", "B", "C", "D", "E", "F", "G", "H", "I", "J", "K", "L", "M", "N",
      "O", "P", "Q", "R", "S", "T", "U", "V", "W", "X", "Y", "Z", "a", "b",
      "c", "d", "e", "f", "g", "h", "i", "j", "k", "l", "m", "n", "o", "p",
      "q", "r", "s", "t", "u", "v", "w", "x", "y", "z", "0", "1", "2", "3",
      "4", "5", "6", "7", "8", "9", "+", "/">>

\* Buffer.from(str): the bytes of an ASCII string
CodeOf(c) ==
    IF c = "\n" THEN 10
    ELSE 31 + (CHOOSE i \in 1..Len(Printable) : Printable[i] = c)

\* a byte read as UTF-8 text; bytes outside ASCII give the replacement character
CharOf(b) ==
    IF b = 10 THEN "\n"
    ELSE IF b >= 32 /\ b <= 126 THEN Printable[b - 31]
    ELSE "U+FFFD"

Utf8Bytes(str) == [i \in 1..Len(str) |-> CodeOf(str[i])]

Utf8Text(bytes) == [i \in 1..Len(bytes) |-> CharOf(bytes[i])]

RECURSIVE Base64Encode(_)
\* Buffer.prototype.toString("base64")
Base64Encode(bytes) ==
    IF bytes = <<>> THEN <<>>
    ELSE IF Len(bytes) = 1
    THEN <<Base64Chars[(bytes[1] \div 4) + 1],
           Base64Chars[((bytes[1] % 4) * 16) + 1], "=", "=">>
    ELSE IF Len(bytes) = 2
    THEN <<Base64Chars[(bytes[1] \div 4) + 1],
           Base64Chars[((bytes[1] % 4) * 16 + (bytes[2] \div 16)) + 1],
           Base64Chars[((bytes[2] % 16) * 4) + 1], "=">>
    ELSE <<Base64Chars[(bytes[1] \div 4) + 1],
           Base64Chars[((bytes[1] % 4) * 16 + (bytes[2] \div 16)) + 1],
           Base64Chars[((bytes[2] % 16) * 4 + (bytes[3] \div 64)) + 1],
           Base64Chars[(bytes[3] % 64) + 1]>>
         \o Base64Encode(SubSeq(bytes, 4, Len(bytes)))

IsBase64Char(c) == \E i \in 1..Len(Base64Chars) : Base64Chars[i] = c

SextetOf(c) == (CHOOSE i \in 1..Len(Base64Chars) : Base64Chars[i] = c) - 1

\* the sextets of the characters before the padding; characters outside
\* the alphabet (whitespace among them) are skipped
Sextets(str) ==
    LET pad == IndexOf(str, <<"=">>)
        data == IF pad = 0 THEN str ELSE SubSeq(str, 1, pad - 1)
        kept == SelectSeq(data, IsBase64Char)
    IN  [i \in 1..Len(kept) |-> SextetOf(kept[i])]

RECURSIVE BytesOfSextets(_)
BytesOfSextets(x) ==
    IF Len(x) < 2 THEN <<>>
    ELSE IF Len(x) = 2 THEN <<x[1] * 4 + (x[2] \div 16)>>
    ELSE IF Len(x) = 3
    THEN <<x[1] * 4 + (x[2] \div 16), (x[2] % 16) * 16 + (x[3] \div 4)>>
    ELSE <<x[1] * 4 + (x[2] \div 16), (x[2] % 16) * 16 + (x[3] \div 4),
           (x[3] % 4) * 64 + x[4]>>
         \o BytesOfSextets(SubSeq(x, 5, Len(x)))

\* Buffer.from(str, "base64")
Base64Decode(str) == BytesOfSextets(Sextets(str))

StrBegin == <<"-", "-", "-", "-", "-", "B", "E", "G", "I", "N">>

\* parseDkimPrivateKey leaving a base64 value as it is
ParseWithoutDecode(key) == key

\* parseDkimPrivateKey of utils/dkim
ParseDkimPrivateKey(key) ==
    IF key = <<>> THEN <<>>
    ELSE IF Includes(key, StrBegin) THEN key
    ELSE Utf8Text(Base64Decode(key))

\* getDkimPrivateKey of the monolith, for a configured value that is not empty
MonolithConfiguredKey(key) ==
    IF ~Includes(key, StrBegin) THEN Utf8Text(Base64Decode(key)) ELSE key

PublicHeader == <<"-", "-", "-", "-", "-", "B", "E", "G", "I", "N", " ", "P", "U", "B",
      "L", "I", "C", " ", "K", "E", "Y", "-", "-", "-", "-", "-">>
PublicFooter == <<"-", "-", "-", "-", "-", "E", "N", "D", " ", "P", "U", "B", "L", "I",
      "C", " ", "K", "E", "Y", "-", "-", "-", "-", "-">>
PrivateHeader == <<"-", "-", "-", "-", "-", "B", "E", "G", "I", "N", " ", "P", "R", "I",
      "V", "A", "T", "E", " ", "K", "E", "Y", "-", "-", "-", "-", "-">>
PrivateFooter == <<"-", "-", "-", "-", "-", "E", "N", "D", " ", "P", "R", "I", "V", "A",
      "T", "E", " ", "K", "E", "Y", "-", "-", "-", "-", "-">>

IsNotSpace(c) == c \notin {" ", "\n", "\t", "\r"}

\* publicKey.replace(header, "").replace(footer, "").replace(/\s/g, "")
PublicKeyBase64(publicKey) ==
    SelectSeq(ReplaceFirst(ReplaceFirst(publicKey, PublicHeader, <<>>),
                           PublicFooter, <<>>),
              IsNotSpace)

\* generateDkimKeyPair, given the PEM pair generateKeyPairSync returned
DkimKeyPair(pem) ==
    [privateKey |-> pem.privateKey,
     publicKeyBase64 |-> PublicKeyBase64(pem.publicKey),
     privateKeyBase64 |-> Base64Encode(Utf8Bytes(pem.privateKey))]

StrMail == <<"m", "a", "i", "l">>
StrDomainKey == <<".", "_", "d", "o", "m", "a", "i", "n", "k", "e", "y", ".">>
GuideValuePrefix == <<"v", "=", "D", "K", "I", "M", "1", ";", " ", "k", "=", "r", "s", "a",
      ";", " ", "p", "=">>

\* what printDkimSetupGuide prints: the TXT record's name and value, the secret
SetupGuide(dom, selector, keyPair) ==
    [name |-> selector \o StrDomainKey \o dom,
     value |-> GuideValuePrefix \o keyPair.publicKeyBase64,
     secret |-> keyPair.privateKeyBase64]

NoGuide == [name |-> <<>>, value |-> <<>>, secret |-> <<>>]

\* whether the startup generates a key pair: index.ts tests the parsed key,
\* the monolith tests the configured value
NeedsGeneratedKey(impl, key) ==
    IF impl = "monolith" THEN ~Truthy(key)
    ELSE ~Truthy(ParseDkimPrivateKey(key))

ConfiguredKey(impl, key) ==
    IF impl = "monolith" THEN MonolithConfiguredKey(key)
    ELSE ParseDkimPrivateKey(key)

\* The startup: the DKIM key is parsed or generated (with the setup guide
\* printed), and the mail service is constructed with it. pem is the pair
\* generateKeyPairSync returns when it is called.
Startup(pem) ==
    /\ keyPc = "boot"
    /\ keyPc' = "ready"
    /\ IF NeedsGeneratedKey(keyImpl, configuredKey)
       THEN /\ dkimPrivateKey' = DkimKeyPair(pem).privateKey
            /\ guide' = SetupGuide(mailDomain, StrMail, DkimKeyPair(pem))
            /\ generatedKeys' = Append(generatedKeys, DkimKeyPair(pem).privateKey)
       ELSE /\ dkimPrivateKey' = ConfiguredKey(keyImpl, configuredKey)
            /\ guide' = NoGuide
            /\ generatedKeys' = generatedKeys
    /\ transportKey' = dkimPrivateKey'
    /\ UNCHANGED <<keyImpl, configuredKey>>
    /\ UNCHANGED <<apiVars, dnsVars>>

\* the process exits and is started again with the same configuration
Restart ==
    /\ keyPc = "ready"
    /\ Len(generatedKeys) < MaxBoots
    /\ keyPc' = "boot"
    /\ dkimPrivateKey' = Undefined
    /\ guide' = NoGuide
    /\ transportKey' = Undefined
    /\ UNCHANGED <<keyImpl, configuredKey, generatedKeys>>
    /\ UNCHANGED <<apiVars, dnsVars>>

InitKey(impls, configured) ==
    /\ keyImpl \in impls
    /\ configuredKey \in configured
    /\ keyPc = "boot"
    /\ dkimPrivateKey = Undefined
    /\ guide = NoGuide
    /\ transportKey = Undefined
    /\ generatedKeys = <<>>

\* ------------------------------------------------------------ environments
Mx20B == [priority |-> 20, exchange |-> <<"b", ".", "m", "x">>]
Mx10A == [priority |-> 10, exchange |-> <<"a", ".", "m", "x">>]
Mx10C == [priority |-> 10, exchange |-> <<"c", ".", "m", "x">>]

MxRecordSet == {Mx20B, Mx10A, Mx10C}

\* what resolveMx can do: reject, or resolve with a list of records
MxAnswersTwo == {MxError, MxOk(<<Mx20B, Mx10A>>)}
MxAnswersFew == MxAnswersTwo \cup {MxOk(<<>>)}
MxAnswersAll == {MxError} \cup {MxOk(l) : l \in SeqsUpTo(MxRecordSet, MaxMx)}

\* resolveMx of a name that is no string throws before any lookup
MxAnswersFor(query, answers) == IF query = Undefined THEN {MxError} ELSE answers

ToFew == {ToStr(AddrUA), ToArr(<<AddrVB, AddrUA>>), ToArr(<<>>)}
ToMany == ToFew \cup {ToArr(<<AddrUA, AddrVB>>), ToStr(AddrNoAt), ToStr(<<>>),
                      ToArr(<<AddrVB>>)}

ApiNext(requests, answers) ==
    \/ \E r \in requests : Receive(r)
    \/ \E i \in DOMAIN sends :
          \E a \in MxAnswersFor(sends[i].query, answers) : MxAnswer(i, a)
    \/ \E i \in DOMAIN sends :
          \E out \in SmtpOutcomes(i, req.emails[i].to) : SmtpDone(i, out)
    \/ Respond
    \/ Finish

RECURSIVE Repeat(_, _)
Repeat(c, n) == IF n = 0 THEN <<>> ELSE <<c>> \o Repeat(c, n - 1)

StrOther == <<"x", "=", "1">>
SpfText == StrSpf1 \o <<" ", "i", "p", "4", ":", "1", ".", "2", ".", "3", ".", "4",
                       " ", "~", "a", "l", "l">>
DmarcText == StrDmarc1 \o <<";", " ", "p", "=", "n", "o", "n", "e">>
DkimText == GuideValuePrefix
DkimLong == DkimText \o Repeat("A", DkimValueLen)

\* what resolveTxt can do: reject, or resolve with records of text segments
SpfAnswers ==
    {TxtError, TxtOk(<<>>), TxtOk(<<<<StrOther>>>>), TxtOk(<<<<SpfText>>>>),
     TxtOk(<<<<StrOther>>, <<SpfText>>>>),
     TxtOk(<<<<SubSeq(SpfText, 1, 7), SubSeq(SpfText, 8, Len(SpfText))>>>>)}

DkimAnswers ==
    {TxtError, TxtOk(<<<<StrOther>>>>), TxtOk(<<<<DkimText>>>>),
     TxtOk(<<<<SubSeq(DkimLong, 1, 3), SubSeq(DkimLong, 4, Len(DkimLong))>>>>)}

DmarcAnswers ==
    {TxtError, TxtOk(<<>>), TxtOk(<<<<StrOther>>>>), TxtOk(<<<<DmarcText>>>>),
     TxtOk(<<<<StrOther>>, <<DmarcText>>>>),
     TxtOk(<<<<SubSeq(DmarcText, 1, 9), SubSeq(DmarcText, 10, Len(DmarcText))>>>>)}

DnsNext ==
    \/ DnsStart
    \/ \E a \in SpfAnswers : SpfAnswer(a)
    \/ \E a \in DkimAnswers : DkimAnswer(a)
    \/ \E a \in DmarcAnswers : DmarcAnswer(a)
    \/ \E a \in MxAnswersFew : MxCheckAnswer(a)
    \/ DnsFinish

PemPrivate(body) ==
    PrivateHeader \o <<"\n">> \o body \o <<"\n">> \o PrivateFooter \o <<"\n">>

PemPublic(body) ==
    PublicHeader \o <<"\n">> \o body \o <<"\n">> \o PublicFooter \o <<"\n">>

\* the i-th pair generateKeyPairSync returns: no two alike
PemPair(i) ==
    [privateKey |-> PemPrivate(<<"M", "I", "I", "E", Base64Chars[i]>>),
     publicKey |-> PemPublic(<<"M", "I", "I", "B", Base64Chars[i], "\n", "Q", "A", "B">>)]

FreshPairs ==
    {PemPair(i) : i \in {j \in 1..MaxBoots :
        \A k \in 1..Len(generatedKeys) : generatedKeys[k] /= PemPair(j).privateKey}}

\* PEM keys an operator can configure, and their base64 wrapping
PemKeys == {PemPrivate(b) : b \in SeqsUpTo({"A", "/"}, MaxKeyBody) \ {<<>>}}

Base64Of(str) == Base64Encode(Utf8Bytes(str))

\* values that are neither: padding only, white space only, base64 of "A"
OtherKeys == {<<"=">>, <<" ">>, <<"Q", "Q", "=", "=">>}

ConfiguredKeys ==
    {<<>>} \cup PemKeys \cup {Base64Of(k) : k \in PemKeys} \cup OtherKeys

KeyNext ==
    \/ \E pem \in FreshPairs : Startup(pem)
    \/ Restart

vars == <<apiVars, dnsVars, keyVars>>

\* the startup's DKIM key initialisation
KeyImpls == {"modular", "monolith"}

InitStartup ==
    InitApi({"direct"}, {StrOk}) /\ InitDns({"modular"}, {<<"a">>}) /\ InitKey(KeyImpls, ConfiguredKeys)

SpecKey == InitStartup /\ [][KeyNext]_vars

\* the DNS verifier
InitDnsCheck == InitApi({"direct"}, {StrOk}) /\ InitDns(DnsImpls, Domains) /\ InitKey({"modular"}, {<<>>})

SpecDns == InitDnsCheck /\ [][DnsNext]_vars

\* the API under every header combination, with one-recipient bodies
AuthRequests ==
    SendRequests(AllHeaders, {ToStr(AddrUA)})
    \cup BatchRequests(AllHeaders, {ToStr(AddrUA)}, 1)

InitAuth ==
    InitApi(Variants, {StrOk, <<>>}) /\ InitDns({"modular"}, {<<"a">>}) /\ InitKey({"modular"}, {<<>>})

NextAuth == ApiNext(AuthRequests, MxAnswersFew)

SpecAuth == InitAuth /\ [][NextAuth]_vars

\* single sends of an authenticated client, under every MX answer
InitSend ==
    InitApi(Variants, {StrOk}) /\ InitDns({"modular"}, {<<"a">>}) /\ InitKey({"modular"}, {<<>>})

NextSend == ApiNext(SendRequests(KeyHeaders, ToMany), MxAnswersAll)

SpecSend == InitSend /\ [][NextSend]_vars

\* batches of an authenticated client
NextBatch == ApiNext(BatchRequests(KeyHeaders, ToFew, MaxBatch), MxAnswersTwo)

SpecBatch == InitSend /\ [][NextBatch]_vars

Spec == SpecSend

\* ------------------------------------------------------------ claims: transport
Done(i) == i \in DOMAIN sends /\ sends[i].pc = "done"

\* C1 as stated: every send that has ended ended with a fulfilled promise,
\* {success: true, ...} when sendMail resolved and {success: false, error}
\* otherwise; no send ends with a rejected promise.
C1_SendNeverRejects ==
    \A i \in DOMAIN sends :
        Done(i) =>
            /\ sends[i].settled = "fulfilled"
            /\ sends[i].value.success = sends[i].smtp.ok

\* C1 amended: MailService.send (direct and relay variants) always fulfils,
\* with {success: true, messageId, accepted, rejected} of sendMail's result
\* when sendMail resolved and {success: false, error} with the error's message
\* otherwise; MailSender.send of the monolith fulfils the same way when
\* sendMail resolved and rejects with sendMail's error otherwise, and the
\* monolith's /api/send handler answers that rejection with
\* {success: false, error}.
C1_FailuresCaptured ==
    /\ \A i \in DOMAIN sends :
          Done(i) =>
            IF sends[i].smtp.ok
            THEN /\ sends[i].settled = "fulfilled"
                 /\ sends[i].value = [success |-> TRUE,
                                      messageId |-> sends[i].smtp.messageId,
                                      accepted |-> sends[i].smtp.accepted,
                                      rejected |-> sends[i].smtp.rejected]
            ELSE LET msg == IF sends[i].smtp = NoOutcome THEN "TypeError"
                            ELSE sends[i].smtp.message
                 IN  IF variant = "monolith"
                     THEN /\ sends[i].settled = "rejected"
                          /\ sends[i].value = [message |-> msg]
                     ELSE /\ sends[i].settled = "fulfilled"
                          /\ sends[i].value = [success |-> FALSE, error |-> msg]
    /\ (pc = "responded" /\ invoked = "send") =>
          /\ status = 200
          /\ response.success = sends[1].smtp.ok
          /\ ~sends[1].smtp.ok => response = [success |-> FALSE,
                 error |-> IF sends[1].smtp = NoOutcome THEN "TypeError"
                           ELSE sends[1].smtp.message]

\* a direct-mode send whose connection was refused ended {success: false}
C1_Witness ==
    /\ variant = "direct"
    /\ \E i \in DOMAIN sends :
          /\ Done(i)
          /\ sends[i].smtp = SmtpFail("ECONNREFUSED")
          /\ sends[i].value = [success |-> FALSE, error |-> "ECONNREFUSED"]

BatchAnswered == pc = "responded" /\ invoked = "send-batch"

\* C2: a batch is answered only after every member send has settled, every
\* member is in flight from the dispatch on, and the answer's results are in
\* input order whatever the completion order: results[i].to is
\* requests[i].to and results[i] carries the outcome of sendMail for
\* requests[i] (its message id, or its error).
C2_BatchOrder ==
    /\ pc = "sending" =>
          /\ DOMAIN sends = 1..Len(req.emails)
          /\ \A i \in DOMAIN sends : sends[i].pc \in {"mx", "smtp", "done"}
    /\ BatchAnswered =>
          /\ \A i \in DOMAIN sends : Done(i)
          /\ Len(response.results) = Len(req.emails)
          /\ \A i \in 1..Len(req.emails) :
                /\ response.results[i].to = req.emails[i].to
                /\ response.results[i].success = sends[i].smtp.ok
                /\ sends[i].smtp.ok =>
                      /\ response.results[i].messageId = i
                      /\ response.results[i].accepted = sends[i].smtp.accepted
                /\ (~sends[i].smtp.ok /\ sends[i].smtp /= NoOutcome) =>
                      response.results[i].error = sends[i].smtp.message

\* a batch whose second member settled before its first, answered
C2_Witness ==
    /\ BatchAnswered
    /\ Len(completed) = 2
    /\ completed[1] = 2
    /\ completed[2] = 1
    /\ req.emails[1].to /= req.emails[2].to
    /\ response.results[1].success /= response.results[2].success

Failing == {i \in DOMAIN sends : ~sends[i].smtp.ok}

\* C3: in the answer of a batch of n requests of which k fail, total = n,
\* success = n - k, failed = k; the entry of each failed member has
\* success = FALSE and an error message, the entry of every other member has
\* success = TRUE.
C3_BatchCounts ==
    BatchAnswered =>
        /\ response.total = Len(req.emails)
        /\ response.failed = Cardinality(Failing)
        /\ response.success = Len(req.emails) - Cardinality(Failing)
        /\ response.success + response.failed = response.total
        /\ \A i \in 1..Len(req.emails) :
              IF i \in Failing
              THEN /\ response.results[i].success = FALSE
                   /\ "error" \in DOMAIN response.results[i]
                   /\ response.results[i].error \in ErrorMessages
              ELSE /\ response.results[i].success = TRUE
                   /\ "error" \notin DOMAIN response.results[i]

\* a batch with a failing member between succeeding ones, answered
C3_Witness ==
    /\ BatchAnswered
    /\ response.total = 3
    /\ response.success = 2
    /\ response.failed = 1
    /\ response.results[1].success = TRUE
    /\ response.results[2].success = FALSE
    /\ response.results[3].success = TRUE
    /\ response.results[2].to = req.emails[2].to

\* ------------------------------------------------------------ claims: API
RequestSeen == req.route /= "none"

NoDelivery ==
    /\ status = 401
    /\ invoked = "none"
    /\ sends = <<>>
    /\ mxLookups = 0
    /\ sendMailCalls = 0

C5_EitherHeaderSuffices ==
    RequestSeen =>
        ((status /= 401) <=>
            \/ req.headers.xApiKey = apiKey
            \/ req.headers.authorization = StrBearer \o apiKey)

\* ------------------------------------------------------------ claims: MX
MinPriority(records, k) ==
    \A j \in 1..Len(records) : records[k].priority <= records[j].priority

\* C8: in direct mode, once resolveMx has answered a send with a non-empty
\* record list, the connect target is the exchange of a record of smallest
\* priority in that list; the one lookup of the send asked for the domain of
\* the first recipient.
C8_LowestPriorityExchange ==
    variant = "direct" =>
        /\ mxLookups <= Len(sends)
        /\ \A i \in DOMAIN sends :
              /\ sends[i].pc \in {"mx", "smtp"} =>
                    sends[i].query = DomainOf(FirstRecipient(req.emails[i].to))
              /\ (sends[i].pc \in {"smtp", "done"} /\ sends[i].answer /= NoAnswer
                     /\ ~sends[i].answer.err /\ sends[i].answer.records /= <<>>) =>
                    \E k \in 1..Len(sends[i].answer.records) :
                        /\ sends[i].answer.records[k].exchange = sends[i].host
                        /\ MinPriority(sends[i].answer.records, k)

\* the answer [20 b.mx, 10 a.mx] for a two-domain recipient list: a.mx chosen
C8_Witness ==
    /\ variant = "direct"
    /\ \E i \in DOMAIN sends :
          /\ req.emails[i].to = ToArr(<<AddrUA, AddrVB>>)
          /\ sends[i].query = <<"a">>
          /\ sends[i].answer = MxOk(<<Mx20B, Mx10A>>)
          /\ sends[i].host = Mx10A.exchange
          /\ sends[i].pc = "done"

\* the sends whose resolveMx rejected or resolved with an empty list
FellBack == {i \in DOMAIN sends : sends[i].answer = MxError
                                  \/ sends[i].answer = MxOk(<<>>)}

\* C14: in direct mode, a send whose MX lookup failed or returned no record
\* goes on with the first recipient's domain as its connect target: sendMail
\* is called once for it (one call per send that is past its lookup), the
\* send stays pending until sendMail settles, and it ends {success: true}
\* exactly when sendMail resolved.
C14_MxFallback ==
    variant = "direct" =>
        /\ sendMailCalls = Cardinality({i \in DOMAIN sends :
                                sends[i].answer /= NoAnswer})
        /\ \A i \in FellBack :
              /\ sends[i].host = DomainOf(FirstRecipient(req.emails[i].to))
              /\ sends[i].pc \in {"smtp", "done"}
              /\ sends[i].pc = "smtp" => sends[i].settled = "pending"
              /\ sends[i].pc = "done" =>
                    /\ sends[i].smtp /= NoOutcome
                    /\ sends[i].settled = "fulfilled"
                    /\ sends[i].value.success = sends[i].smtp.ok

\* a send to u@a whose MX lookup failed, delivered to the host a
C14_Witness ==
    /\ variant = "direct"
    /\ \E i \in DOMAIN sends :
          /\ req.emails[i].to = ToStr(AddrUA)
          /\ sends[i].answer = MxError
          /\ sends[i].host = <<"a">>
          /\ sends[i].pc = "done"
          /\ sends[i].value.success = TRUE
          /\ sendMailCalls = 1

\* ------------------------------------------------------------ claims: DNS
\* C6: whatever the four lookups answer, checkDnsRecords returns a mapping
\* with exactly the keys SPF, DKIM, DMARC and MX; SPF, DKIM and DMARC have
\* status OK or MISSING, MX has status OK or OPTIONAL.
C6_FourKeysAlways ==
    dnsPc = "done" =>
        /\ DOMAIN dnsResults = DnsKinds
        /\ \A k \in {"SPF", "DKIM", "DMARC"} :
              dnsResults[k].status \in {"OK", "MISSING"}
        /\ dnsResults["MX"].status \in {"OK", "OPTIONAL"}

\* C7 as stated: the four lookups are in flight together, none waiting for
\* another: while the check runs, every lookup that has not settled is in
\* flight.
C7_AllInFlightTogether ==
    dnsPc \notin {"idle", "done"} => dnsInFlight = DnsKinds \ DOMAIN dnsAnswers

EarlierKinds(kind) ==
    IF kind = "SPF" THEN {}
    ELSE IF kind = "DKIM" THEN {"SPF"}
    ELSE IF kind = "DMARC" THEN {"SPF", "DKIM"}
    ELSE {"SPF", "DKIM", "DMARC"}

\* the answers that hold the record looked for
GoodAnswers(kind) ==
    IF kind = "SPF"
    THEN {a \in SpfAnswers : \E i \in 1..Len(Flat(a.records)) :
                                 StartsWith(Flat(a.records)[i], StrSpf1)}
    ELSE IF kind = "DKIM" THEN DkimAnswers \ {TxtError, TxtOk(<<<<StrOther>>>>)}
    ELSE IF kind = "DMARC"
    THEN {a \in DmarcAnswers : \E i \in 1..Len(Flat(a.records)) :
                                   StartsWith(Flat(a.records)[i], StrDmarc1)}
    ELSE {MxOk(<<Mx20B, Mx10A>>)}

\* C7 amended: the four lookups run one after another in the order SPF,
\* DKIM, DMARC, MX: at most one is in flight at any time, and it is issued
\* only when every earlier one has settled. They are independent: every
\* entry of the result mapping has status OK exactly when its own lookup
\* answered with the record looked for, whatever the other lookups answered.
C7_SequentialIndependent ==
    /\ Cardinality(dnsInFlight) <= 1
    /\ dnsPc \notin {"idle", "done"} => dnsInFlight = {dnsPc}
    /\ \A k \in dnsInFlight : EarlierKinds(k) \subseteq DOMAIN dnsAnswers
    /\ \A k \in DOMAIN dnsResults :
          (dnsResults[k].status = "OK") <=> (dnsAnswers[k] \in GoodAnswers(k))

\* a check whose SPF and DMARC lookups failed and whose DKIM and MX lookups
\* found their records
C7_Witness ==
    /\ dnsPc = "done"
    /\ DOMAIN dnsResults = DnsKinds
    /\ dnsAnswers["SPF"] = TxtError
    /\ dnsAnswers["DMARC"] = TxtError
    /\ dnsResults["SPF"].status = "MISSING"
    /\ dnsResults["DKIM"].status = "OK"
    /\ dnsResults["DMARC"].status = "MISSING"
    /\ dnsResults["MX"].status = "OK"

\* ------------------------------------------------------------ claims: SPF, DMARC
\* the complete text of every TXT record of an answer: its segments joined
RecordTexts(answer) ==
    [i \in 1..Len(answer.records) |-> Join(answer.records[i], <<>>)]

\* C11: when the TXT lookup for the domain returned a record whose text
\* starts with "v=spf1", the SPF result is OK with the complete text of such
\* a record as its value, also when the record came in several segments;
\* otherwise (no such record, or the lookup failed) it is MISSING with the
\* hint "Add TXT: v=spf1 ip4:YOUR_SERVER_IP ~all".
C11_SpfExactRecord ==
    "SPF" \in DOMAIN dnsResults =>
        LET answer == dnsAnswers["SPF"]
            texts == RecordTexts(answer)
            found == {i \in 1..Len(texts) : StartsWith(texts[i], StrSpf1)}
        IN  IF ~answer.err /\ found /= {}
            THEN /\ dnsResults["SPF"].status = "OK"
                 /\ \E i \in found : dnsResults["SPF"].value = texts[i]
            ELSE dnsResults["SPF"] =
                    [status |-> "MISSING",
                     hint |-> <<"Add TXT: v=spf1 ip4:YOUR_SERVER_IP ~all">>]

\* C12: when the TXT lookup for _dmarc.<domain> failed, returned no records
\* or returned no entry starting with "v=DMARC1", the DMARC result is MISSING
\* with the hint "Add TXT _dmarc.<domain>: v=DMARC1; p=quarantine", which
\* holds the domain checked, and has no value; otherwise it is OK with the
\* text of the first such entry as its value and has no hint.
C12_DmarcMissingHint ==
    "DMARC" \in DOMAIN dnsResults =>
        LET answer == dnsAnswers["DMARC"]
            entries == Flat(answer.records)
            found == {i \in 1..Len(entries) : StartsWith(entries[i], StrDmarc1)}
            result == dnsResults["DMARC"]
        IN  IF answer.err \/ found = {}
            THEN /\ result.status = "MISSING"
                 /\ DOMAIN result = {"status", "hint"}
                 /\ result.hint /= <<>>
                 /\ Includes(result.hint, mailDomain)
                 /\ result.hint = <<"Add TXT _dmarc.">> \o mailDomain
                                      \o <<": v=DMARC1; p=quarantine">>
            ELSE /\ result.status = "OK"
                 /\ DOMAIN result = {"status", "value"}
                 /\ \E i \in found :
                       /\ \A j \in found : i <= j
                       /\ result.value = entries[i]

\* the check of b.c whose _dmarc lookup returned no records
C12_Witness ==
    /\ "DMARC" \in DOMAIN dnsResults
    /\ mailDomain = <<"b", ".", "c">>
    /\ dnsAnswers["DMARC"] = TxtOk(<<>>)
    /\ dnsResults["DMARC"].status = "MISSING"
    /\ Includes(dnsResults["DMARC"].hint, <<"b", ".", "c">>)

\* C13: when resolveMx returned at least one record, the MX result is OK with
\* the "<priority> <exchange>" pairs joined by ", " in the resolver's order;
\* when it failed or returned an empty list, the MX result is
\* {status: OPTIONAL, hint: "Not required for sending only"}.
C13_MxOkOrOptional ==
    dnsPc = "done" =>
        LET answer == dnsAnswers["MX"]
        IN  /\ "MX" \in DOMAIN dnsResults
            /\ IF ~answer.err /\ Len(answer.records) > 0
               THEN dnsResults["MX"] =
                       [status |-> "OK",
                        value |-> Join([k \in 1..Len(answer.records) |->
                                           NumToStr(answer.records[k].priority)
                                           \o <<" ">> \o answer.records[k].exchange],
                                       <<",", " ">>)]
               ELSE dnsResults["MX"] =
                       [status |-> "OPTIONAL",
                        hint |-> <<"Not required for sending only">>]

\* ------------------------------------------------------------ claims: DKIM key
\* C9: for every PEM key K, a configured value K resolves to K, a configured
\* value base64(K) resolves to K, and resolving the resolved value again
\* returns it unchanged.
C9_KeyNormalised ==
    keyPc = "ready" =>
        \A k \in PemKeys :
            configuredKey \in {k, Base64Of(k)} =>
                /\ dkimPrivateKey = k
                /\ transportKey = k
                /\ ConfiguredKey(keyImpl, dkimPrivateKey) = dkimPrivateKey

\* a startup whose configured value was the base64 wrapping of a PEM key
C9_Witness ==
    /\ keyPc = "ready"
    /\ configuredKey = Base64Of(PemPrivate(<<"A", "/">>))
    /\ dkimPrivateKey = PemPrivate(<<"A", "/">>)
    /\ configuredKey /= dkimPrivateKey

Distinct(keys) ==
    \A i, j \in 1..Len(keys) : i /= j => keys[i] /= keys[j]

\* C10: a startup generates a key pair exactly when the configured value is
\* empty; then the transport gets the generated PEM key, never the empty
\* string, the guide printed holds "v=DKIM1; k=rsa; p=<base64 SPKI>" and the
\* base64 private key, and successive startups generate different keys.
C10_GeneratedExactlyWhenEmpty ==
    keyPc = "ready" =>
        /\ (guide /= NoGuide) <=> (configuredKey = <<>>)
        /\ configuredKey = <<>> =>
              /\ Truthy(transportKey)
              /\ Includes(transportKey, StrBegin)
              /\ transportKey = generatedKeys[Len(generatedKeys)]
              /\ StartsWith(guide.value, GuideValuePrefix)
              /\ guide.secret = Base64Of(transportKey)
              /\ Distinct(generatedKeys)

====
